---- MODULE Spec2Model ----
(***************************************************************************)
(* Model of the Word Error Rate scorer, app/utils/wer_calculator.py, and   *)
(* of the routers that call it and the transcription provider:            *)
(* app/routers/audit.py, webhook.py and transcribe.py.                     *)
(*                                                                         *)
(* A Python str is a sequence of one-character strings; a Python value is  *)
(* a record [type, value] so that None and "" are different values.        *)
(* calculate_wer is modelled as the steps of one invocation: the check of  *)
(* the raw arguments, the call of jiwer.process_words under the composed   *)
(* transforms, and the construction of the WERResult.                      *)
(***************************************************************************)
EXTENDS Integers, Sequences, FiniteSets, TLC

VARIABLES
    \* one invocation of calculate_wer (or of calculate_simple_wer around it)
    reference, hypothesis, pc, output, result, raised, score,
    \* concurrent invocations of calculate_wer and their frames
    calls, locals,
    \* one request to a router: the handler, its request, the position in
    \* the handler, the response and the calls made to the outside
    endpoint, request, at, response, trace,
    \* the locals of the transcription batch handlers
    audio_files, audio_urls, url_index, success_count, error_count,
    keyterms, keywords,
    \* the stores outside the program: the Redis keys and their values, the
    \* objects of the storage bucket; and the webhook deliveries that run
    \* at the same time against that bucket
    redis_store, bucket, deliveries

scorerVars == <<reference, hypothesis, pc, output, result, raised, score>>
concurrentVars == <<calls, locals>>
handlerVars == <<endpoint, request, at, response, trace>>
batchVars == <<audio_files, audio_urls, url_index, success_count, error_count, keyterms, keywords>>
storeVars == <<redis_store, bucket, deliveries>>
outsideScorer == <<concurrentVars, handlerVars, batchVars, storeVars>>
vars == <<scorerVars, concurrentVars, handlerVars, batchVars, storeVars>>

(***************************************************************************)
(* Bounds of the checked inputs.                                           *)
(***************************************************************************)
\* raw chunks per argument in the chunk family of inputs
MaxWords == 2
\* characters of the reference in the character family of inputs
MaxLen == 3
\* words per argument in the plain-word family of inputs
MaxTokens == 3

(***************************************************************************)
(* Characters.                                                             *)
(***************************************************************************)
LowerLetters == <<"a","b","c","d","e","f","g","h","i","j","k","l","m",
                  "n","o","p","q","r","s","t","u","v","w","x","y","z">>
UpperLetters == <<"A","B","C","D","E","F","G","H","I","J","K","L","M",
                  "N","O","P","Q","R","S","T","U","V","W","X","Y","Z">>

\* the characters Python's str.strip(), str.split() and the regex \s treat
\* as white space, among the characters of the checked inputs
Whitespace == {" ", "\t", "\n"}

\* characters of a Unicode category P*, among those of the checked inputs
Punctuation == {",", ".", "!", "?", "'"}

IsUpper(c) == \E i \in DOMAIN UpperLetters : UpperLetters[i] = c

\* str.lower() on one character
Lower(c) ==
    IF IsUpper(c)
    THEN LowerLetters[CHOOSE i \in DOMAIN UpperLetters : UpperLetters[i] = c]
    ELSE c

(***************************************************************************)
(* Python values.                                                          *)
(***************************************************************************)
PyStr(s) == [type |-> "str", value |-> s]
PyNone == [type |-> "NoneType", value |-> <<>>]

\* `not v` for a str or None
Falsy(v) == v.type = "NoneType" \/ Len(v.value) = 0

(***************************************************************************)
(* Python string methods.                                                  *)
(***************************************************************************)
RECURSIVE LStrip(_)
LStrip(s) ==
    IF s # <<>> /\ s[1] \in Whitespace THEN LStrip(Tail(s)) ELSE s

RECURSIVE RStrip(_)
RStrip(s) ==
    IF s # <<>> /\ s[Len(s)] \in Whitespace
    THEN RStrip(SubSeq(s, 1, Len(s) - 1))
    ELSE s

\* str.strip()
PyStrip(s) == RStrip(LStrip(s))

\* the pieces of s between the characters of seps, empty pieces included
RECURSIVE SplitFrom(_, _, _, _)
SplitFrom(s, seps, i, cur) ==
    IF i > Len(s) THEN <<cur>>
    ELSE IF s[i] \in seps
         THEN <<cur>> \o SplitFrom(s, seps, i + 1, <<>>)
         ELSE SplitFrom(s, seps, i + 1, Append(cur, s[i]))

NonEmpty(w) == Len(w) >= 1

\* str.split(): the maximal runs of characters that are not white space
PySplit(s) == SelectSeq(SplitFrom(s, Whitespace, 1, <<>>), NonEmpty)

(***************************************************************************)
(* The jiwer transforms composed by calculate_wer.  process_words hands a  *)
(* transform the list [text], so each acts on a list of sentences.         *)
(***************************************************************************)
\* jiwer.ToLowerCase: s.lower()
ToLowerCaseString(s) == [k \in DOMAIN s |-> Lower(s[k])]
ToLowerCase(inp) == [k \in DOMAIN inp |-> ToLowerCaseString(inp[k])]

\* jiwer.RemoveEmptyStrings on a list: the sentences that are empty once
\* stripped are dropped, the others are kept as they are
KeptByRemoveEmptyStrings(s) == PyStrip(s) # <<>>
RemoveEmptyStrings(inp) == SelectSeq(inp, KeptByRemoveEmptyStrings)

\* the first index from i on that holds no white space (Len(s) + 1 if none)
RECURSIVE RunEnd(_, _)
RunEnd(s, i) ==
    IF i <= Len(s) /\ s[i] \in Whitespace THEN RunEnd(s, i + 1) ELSE i

\* jiwer.RemoveMultipleSpaces: re.sub(r"\s\s+", " ", s); a run of two or
\* more white space characters becomes one space, a single one stays
RECURSIVE RemoveMultipleSpacesFrom(_, _)
RemoveMultipleSpacesFrom(s, i) ==
    IF i > Len(s) THEN <<>>
    ELSE IF RunEnd(s, i) >= i + 2
         THEN <<" ">> \o RemoveMultipleSpacesFrom(s, RunEnd(s, i))
         ELSE <<s[i]>> \o RemoveMultipleSpacesFrom(s, i + 1)

RemoveMultipleSpacesString(s) == RemoveMultipleSpacesFrom(s, 1)
RemoveMultipleSpaces(inp) == [k \in DOMAIN inp |-> RemoveMultipleSpacesString(inp[k])]

\* jiwer.Strip: s.strip()
Strip(inp) == [k \in DOMAIN inp |-> PyStrip(inp[k])]

\* jiwer.RemovePunctuation: every punctuation character is deleted
NotPunctuation(c) == c \notin Punctuation
RemovePunctuationString(s) == SelectSeq(s, NotPunctuation)
RemovePunctuation(inp) == [k \in DOMAIN inp |-> RemovePunctuationString(inp[k])]

\* jiwer.ReduceToListOfListOfWords: s.split(" ") without the empty words;
\* an empty list of sentences becomes [[]]
word_delimiter == {" "}
ReduceString(s) == SelectSeq(SplitFrom(s, word_delimiter, 1, <<>>), NonEmpty)
ReduceToListOfListOfWords(inp) ==
    IF Len(inp) = 0 THEN << <<>> >> ELSE [k \in DOMAIN inp |-> ReduceString(inp[k])]

\* transforms = jiwer.Compose([...]), applied in the order of the list
transforms(inp) ==
    ReduceToListOfListOfWords(
      RemovePunctuation(
        Strip(
          RemoveMultipleSpaces(
            RemoveEmptyStrings(
              ToLowerCase(inp))))))

\* hypothesis_transform with a fault: the argument left out of the call, so
\* that jiwer's default transform (wer_default) is applied
hypothesis_transform_default(inp) ==
    ReduceToListOfListOfWords(Strip(RemoveMultipleSpaces(inp)))

\* the keyword arguments of the call of process_words
reference_transform(inp) == transforms(inp)
hypothesis_transform(inp) == transforms(inp)

\* the word tokens of one text: transforms([text])[0]
Normalize(s) == transforms(<<s>>)[1]

\* " ".join(words)
RECURSIVE JoinWords(_)
JoinWords(ws) ==
    IF ws = <<>> THEN <<>>
    ELSE IF Len(ws) = 1 THEN ws[1]
    ELSE ws[1] \o <<" ">> \o JoinWords(Tail(ws))

(***************************************************************************)
(* rapidfuzz.distance.Levenshtein.editops, which jiwer.process_words calls *)
(* on the two word sequences (each word replaced by a character of its     *)
(* own, so that characters are equal exactly when the words are).          *)
(***************************************************************************)
\* jiwer _word2char: a word becomes the index of its first occurrence in
\* the words of both texts
FirstIndex(ws, w) == CHOOSE i \in 1..Len(ws) :
                        /\ ws[i] = w
                        /\ \A k \in 1..(i - 1) : ws[k] # w
Word2Char(vocabulary, ws) == [k \in DOMAIN ws |-> FirstIndex(vocabulary, ws[k])]

\* remove_common_affix: the length of the common prefix and, after it is
\* cut, of the common suffix
RECURSIVE CommonPrefix(_, _)
CommonPrefix(s1, s2) ==
    IF s1 # <<>> /\ s2 # <<>> /\ s1[1] = s2[1]
    THEN 1 + CommonPrefix(Tail(s1), Tail(s2))
    ELSE 0

RECURSIVE CommonSuffix(_, _)
CommonSuffix(s1, s2) ==
    IF s1 # <<>> /\ s2 # <<>> /\ s1[Len(s1)] = s2[Len(s2)]
    THEN 1 + CommonSuffix(SubSeq(s1, 1, Len(s1) - 1), SubSeq(s2, 1, Len(s2) - 1))
    ELSE 0

Min3(a, b, c) == IF a <= b /\ a <= c THEN a ELSE IF b <= c THEN b ELSE c

\* One cell of the distance matrix, from the row above (prev) and the cells
\* of its own row to its left (cur): prev[j] is the diagonal cell, prev[j+1]
\* the cell above, cur[j] the cell to the left.
LevCell(x, y, prev, cur, j) ==
    IF x = y THEN prev[j]
    ELSE 1 + Min3(prev[j], prev[j + 1], cur[j])

RECURSIVE FillRow(_, _, _, _, _)
FillRow(x, s2, prev, cur, j) ==
    IF j > Len(s2) THEN cur
    ELSE FillRow(x, s2, prev, Append(cur, LevCell(x, s2[j], prev, cur, j)), j + 1)

\* rows 0..Len(s1) of the matrix; row i holds D[i][0..Len(s2)] at 1..Len(s2)+1
RECURSIVE MatrixRows(_, _, _, _)
MatrixRows(s1, s2, i, rows) ==
    IF i > Len(s1) THEN rows
    ELSE MatrixRows(s1, s2, i + 1,
                    Append(rows, FillRow(s1[i], s2, rows[i], <<i>>, 1)))

levenshtein_matrix(s1, s2) ==
    MatrixRows(s1, s2, 1, << [j \in 1..(Len(s2) + 1) |-> j - 1] >>)

\* recover_alignment: the walk back from the last cell.  VP set at a cell:
\* it holds one more than the cell of the s1 prefix shorter by one (a
\* deletion); VN set: it holds one less.  ops counts the edit operations.
\* Diagonal with a fault: a match is tallied as a substitution
Diagonal_tally_matches(ops, x, y) == [ops EXCEPT !.substitutions = @ + 1]

\* the diagonal step: a replace is recorded, a match is not
Diagonal(ops, x, y) ==
    IF x # y THEN [ops EXCEPT !.substitutions = @ + 1] ELSE ops

\* Leftover with a fault: the two trailing loops exchanged
Leftover_swapped(ops, col, row) ==
    [ops EXCEPT !.deletions = @ + row, !.insertions = @ + col]

\* the two trailing loops: what is left of s1 is deleted, of s2 inserted
Leftover(ops, col, row) ==
    [ops EXCEPT !.deletions = @ + col, !.insertions = @ + row]

RECURSIVE recover_alignment(_, _, _, _, _, _)
recover_alignment(s1, s2, M, col, row, ops) ==
    IF row = 0 \/ col = 0
    THEN Leftover(ops, col, row)
    ELSE IF M[col + 1][row + 1] = M[col][row + 1] + 1
    THEN recover_alignment(s1, s2, M, col - 1, row,
                           [ops EXCEPT !.deletions = @ + 1])
    ELSE IF row - 1 > 0 /\ M[col + 1][row] = M[col][row] - 1
    THEN recover_alignment(s1, s2, M, col, row - 1,
                           [ops EXCEPT !.insertions = @ + 1])
    ELSE recover_alignment(s1, s2, M, col - 1, row - 1,
                           Diagonal(ops, s1[col], s2[row]))

NoOps == [substitutions |-> 0, deletions |-> 0, insertions |-> 0]

\* Levenshtein.editops, counted by tag as process_words counts them
editops(a, b) ==
    LET p  == CommonPrefix(a, b)
        a1 == SubSeq(a, p + 1, Len(a))
        b1 == SubSeq(b, p + 1, Len(b))
        q  == CommonSuffix(a1, b1)
        s1 == SubSeq(a1, 1, Len(a1) - q)
        s2 == SubSeq(b1, 1, Len(b1) - q)
    IN  recover_alignment(s1, s2, levenshtein_matrix(s1, s2),
                          Len(s1), Len(s2), NoOps)

(***************************************************************************)
(* jiwer.process_words(reference, hypothesis, transforms, transforms).     *)
(***************************************************************************)
NoOutput == [wer |-> [num |-> 0, den |-> 0], substitutions |-> 0,
             deletions |-> 0, insertions |-> 0, hits |-> 0, set |-> FALSE]

\* _is_list_of_list_of_strings(x, require_non_empty_lists=True), which
\* _apply_transform asks of the transformed reference
AllNonEmptyLists(x) == \A k \in DOMAIN x : Len(x[k]) # 0

\* The call either raises (raises = TRUE, with the message) or returns the
\* word output.  The reference and the hypothesis are one sentence each, so
\* the totals over the sentences are those of the first.
process_words(ref, hyp) ==
    LET ref_transformed == reference_transform(<<ref>>)
        hyp_transformed == hypothesis_transform(<<hyp>>)
    IN  IF Len(ref) = 0
        THEN [raises |-> TRUE, output |-> NoOutput,
              message |-> "one or more references are empty strings"]
        ELSE IF ~AllNonEmptyLists(ref_transformed)
        THEN [raises |-> TRUE, output |-> NoOutput,
              message |-> "each reference should be a non-empty list of strings"]
        ELSE IF Len(ref_transformed) # Len(hyp_transformed)
        THEN [raises |-> TRUE, output |-> NoOutput,
              message |-> "their lengths must match"]
        ELSE
        LET vocabulary == ref_transformed[1] \o hyp_transformed[1]
            ref_as_chars == Word2Char(vocabulary, ref_transformed[1])
            hyp_as_chars == Word2Char(vocabulary, hyp_transformed[1])
            edit_ops == editops(ref_as_chars, hyp_as_chars)
            S == edit_ops.substitutions
            D == edit_ops.deletions
            I == edit_ops.insertions
            H == Len(ref_as_chars) - (S + D)
        IN  [raises |-> FALSE, message |-> "",
             output |-> [wer |-> [num |-> S + D + I, den |-> H + S + D],
                         substitutions |-> S, deletions |-> D,
                         insertions |-> I, hits |-> H, set |-> TRUE]]

(***************************************************************************)
(* calculate_wer(reference, hypothesis).                                   *)
(***************************************************************************)
NoError == [type |-> "", message |-> ""]
ValueError(msg) == [type |-> "ValueError", message |-> msg]

NoResult == [wer_score |-> [num |-> 0, den |-> 0], substitutions |-> 0,
             deletions |-> 0, insertions |-> 0, reference_word_count |-> 0,
             hypothesis_word_count |-> 0, set |-> FALSE]

\* WERResult with a fault: the score capped at 1.0
WERResult_clamped(out, reference_words, hypothesis_words) ==
    [wer_score |-> IF out.wer.num > out.wer.den
                   THEN [num |-> out.wer.den, den |-> out.wer.den]
                   ELSE out.wer,
     substitutions |-> out.substitutions,
     deletions |-> out.deletions, insertions |-> out.insertions,
     reference_word_count |-> reference_words,
     hypothesis_word_count |-> hypothesis_words, set |-> TRUE]

WERResult(out, reference_words, hypothesis_words) ==
    [wer_score |-> out.wer, substitutions |-> out.substitutions,
     deletions |-> out.deletions, insertions |-> out.insertions,
     reference_word_count |-> reference_words,
     hypothesis_word_count |-> hypothesis_words, set |-> TRUE]

\* InvalidInputs with a fault: only the reference is checked
InvalidInputs_reference_only(ref, hyp) == Falsy(ref)

\* the guard of line 30: `not reference or not hypothesis`
InvalidInputs(ref, hyp) == Falsy(ref) \/ Falsy(hyp)

\* word_count with a fault: the words of the normalized text are counted
word_count_normalized(s) == Len(Normalize(s))

\* lines 54-55: len(text.split())
word_count(s) == Len(PySplit(s))

\* lines 30-31
CheckInputs ==
    /\ pc = "called"
    /\ IF InvalidInputs(reference, hypothesis)
       THEN /\ raised' = ValueError("Both reference and hypothesis must be non-empty strings")
            /\ pc' = "raised"
       ELSE /\ raised' = raised
            /\ pc' = "checked"
    /\ UNCHANGED <<reference, hypothesis, output, result, score>>
    /\ UNCHANGED outsideScorer

\* ProcessWords with a fault: the handler answers a failure of the library with
\* a zero result instead of raising
ProcessWords_sentinel ==
    /\ pc = "checked"
    /\ LET r == process_words(reference.value, hypothesis.value)
       IN  output' = IF r.raises THEN [NoOutput EXCEPT !.set = TRUE] ELSE r.output
    /\ pc' = "processed"
    /\ UNCHANGED <<reference, hypothesis, result, raised, score>>
    /\ UNCHANGED outsideScorer

\* lines 33-51 and the handler of lines 66-67
ProcessWords ==
    /\ pc = "checked"
    /\ LET r == process_words(reference.value, hypothesis.value)
       IN  IF r.raises
           THEN /\ raised' = ValueError("Error calculating WER: " \o r.message)
                /\ output' = output
                /\ pc' = "raised"
           ELSE /\ output' = r.output
                /\ raised' = raised
                /\ pc' = "processed"
    /\ UNCHANGED <<reference, hypothesis, result, score>>
    /\ UNCHANGED outsideScorer

\* lines 53-64
ReturnResult ==
    /\ pc = "processed"
    /\ result' = WERResult(output, word_count(reference.value),
                           word_count(hypothesis.value))
    /\ pc' = "returned"
    /\ UNCHANGED <<reference, hypothesis, output, raised, score>>
    /\ UNCHANGED outsideScorer

\* the score before calculate_simple_wer has returned
NoScore == [num |-> 0, den |-> 0]

\* calculate_simple_wer with a fault: the number of edits is returned
\* instead of the rate
calculate_simple_wer_edits ==
    /\ pc = "returned"
    /\ score' = [num |-> result.wer_score.num, den |-> 1]
    /\ pc' = "simple_returned"
    /\ UNCHANGED <<reference, hypothesis, output, result, raised>>
    /\ UNCHANGED outsideScorer

\* lines 70-81: calculate_simple_wer returns the wer_score of the WERResult
\* of calculate_wer; a failure of calculate_wer propagates unchanged
calculate_simple_wer ==
    /\ pc = "returned"
    /\ score' = result.wer_score
    /\ pc' = "simple_returned"
    /\ UNCHANGED <<reference, hypothesis, output, result, raised>>
    /\ UNCHANGED outsideScorer

(***************************************************************************)
(* The values of the variables of a part of the program that is not        *)
(* running.                                                                *)
(***************************************************************************)
NoRequest == [none |-> TRUE]
NoBody == [none |-> TRUE]
NoResponse == [status |-> 0, detail |-> "", body |-> NoBody]

IdleScorer ==
    /\ reference = PyNone
    /\ hypothesis = PyNone
    /\ pc = "idle"
    /\ output = NoOutput
    /\ result = NoResult
    /\ raised = NoError
    /\ score = NoScore

IdleConcurrent ==
    /\ calls = <<>>
    /\ locals = <<>>

IdleHandler ==
    /\ endpoint = "none"
    /\ request = NoRequest
    /\ at = "idle"
    /\ response = NoResponse
    /\ trace = <<>>

IdleBatch ==
    /\ audio_files = <<>>
    /\ audio_urls = <<>>
    /\ url_index = 0
    /\ success_count = 0
    /\ error_count = 0
    /\ keyterms = <<>>
    /\ keywords = <<>>

\* no key in Redis, no object in the bucket, no delivery under way
IdleStore ==
    /\ redis_store = {}
    /\ bucket = {}
    /\ deliveries = <<>>

(***************************************************************************)
(* The checked invocations.                                                *)
(***************************************************************************)
\* raw chunks joined by single spaces: an empty chunk gives leading,
\* trailing and doubled spaces
RawVocab == {<<>>, <<"a">>, <<"B">>, <<",">>}
ChunkTexts ==
    {JoinWords(ws) : ws \in UNION {[1..k -> RawVocab] : k \in 0..MaxWords}}

\* every string of the alphabet up to MaxLen characters
Alphabet == {"a", "A", ",", " ", "\t"}
CharTexts == UNION {[1..k -> Alphabet] : k \in 0..MaxLen}
CharHypotheses == {<<>>} \cup {<<c>> : c \in Alphabet}

Scenarios ==
    { <<PyStr(<<"T","h","e"," ","c","a","t"," ","s","a","t"," ","o","n"," ","t","h","e"," ","m","a","t">>),
        PyStr(<<"A"," ","c","a","t"," ","s","a","t"," ","o","n"," ","m","a","t">>)>>,
      <<PyStr(<<"h","e","l","l","o"," ","w","o","r","l","d">>),
        PyStr(<<"h","e","l","l","o"," ","w","o","r","l","d">>)>>,
      <<PyStr(<<"h","e","l","l","o">>),
        PyStr(<<"h","e","l","l","o"," ","t","h","e","r","e"," ","f","r","i","e","n","d">>)>>,
      <<PyStr(<<"h","e","l","l","o"," ",","," ","w","o","r","l","d">>),
        PyStr(<<"h","e","l","l","o"," ","w","o","r","l","d">>)>>,
      <<PyStr(<<"t","h","e"," ","t","h","e"," ","t","h","e">>),
        PyStr(<<>>)>> }

\* plain words joined by single spaces
PlainVocab == {<<"a">>, <<"b">>}
PlainTexts ==
    {JoinWords(ws) : ws \in UNION {[1..k -> PlainVocab] : k \in 0..MaxTokens}}

CallInputs ==
    {<<PyStr(r), PyStr(h)>> : r \in ChunkTexts, h \in ChunkTexts}
    \cup {<<PyStr(r), PyStr(h)>> : r \in PlainTexts, h \in PlainTexts}
    \cup {<<PyStr(r), PyStr(h)>> : r \in CharTexts, h \in CharHypotheses}
    \cup Scenarios
    \cup {<<PyNone, PyStr(<<"a">>)>>, <<PyStr(<<"a">>), PyNone>>, <<PyNone, PyNone>>}

Init ==
    /\ \E call \in CallInputs :
          /\ reference = call[1]
          /\ hypothesis = call[2]
    /\ pc = "called"
    /\ output = NoOutput
    /\ result = NoResult
    /\ raised = NoError
    /\ score = NoScore
    /\ IdleConcurrent
    /\ IdleHandler
    /\ IdleBatch
    /\ IdleStore

Next ==
    \/ CheckInputs
    \/ ProcessWords
    \/ ReturnResult
    \/ calculate_simple_wer

Spec == Init /\ [][Next]_vars

(***************************************************************************)
(* Concurrent invocations of calculate_wer, as made by request handlers    *)
(* that run at the same time.  calls[p] is what invocation p was called    *)
(* with, where it stands and what it gave back; locals[f] is the `output`  *)
(* of line 46 held in frame f.  The module wer_calculator holds no         *)
(* module-level variable: every name the function assigns is a local.      *)
(***************************************************************************)
\* invocations that run at the same time
MaxInvocations == 2
Invocations == 1..MaxInvocations

ConcurrentInputs ==
    { <<PyStr(<<"a", " ", "b">>), PyStr(<<"b", " ", "a">>)>>,
      <<PyStr(<<"a">>), PyStr(<<"b", " ", "b">>)>>,
      <<PyStr(<<"a", " ", "b">>), PyStr(<<",">>)>>,
      <<PyStr(<<",">>), PyStr(<<"a">>)>>,
      <<PyStr(<<>>), PyStr(<<"a">>)>> }

\* Frame with a fault: `output` is one module-level variable
Frame_module_level(p) == 1

\* the frame that holds the locals of invocation p: its own
Frame(p) == p

Called(call) ==
    [reference |-> call[1], hypothesis |-> call[2], pc |-> "called",
     result |-> NoResult, raised |-> NoError]

\* lines 30-31, in invocation p
CheckInputsOf(p) ==
    /\ calls[p].pc = "called"
    /\ calls' = IF InvalidInputs(calls[p].reference, calls[p].hypothesis)
                THEN [calls EXCEPT
                        ![p].raised = ValueError("Both reference and hypothesis must be non-empty strings"),
                        ![p].pc = "raised"]
                ELSE [calls EXCEPT ![p].pc = "checked"]
    /\ UNCHANGED <<locals, scorerVars, handlerVars, batchVars, storeVars>>

\* lines 33-51 and the handler of lines 66-67, in invocation p
ProcessWordsOf(p) ==
    /\ calls[p].pc = "checked"
    /\ LET r == process_words(calls[p].reference.value,
                              calls[p].hypothesis.value)
       IN  IF r.raises
           THEN /\ calls' = [calls EXCEPT
                               ![p].raised = ValueError("Error calculating WER: " \o r.message),
                               ![p].pc = "raised"]
                /\ locals' = locals
           ELSE /\ locals' = [locals EXCEPT ![Frame(p)] = r.output]
                /\ calls' = [calls EXCEPT ![p].pc = "processed"]
    /\ UNCHANGED <<scorerVars, handlerVars, batchVars, storeVars>>

\* lines 53-64, in invocation p
ReturnResultOf(p) ==
    /\ calls[p].pc = "processed"
    /\ calls' = [calls EXCEPT
                   ![p].result = WERResult(locals[Frame(p)],
                                           word_count(calls[p].reference.value),
                                           word_count(calls[p].hypothesis.value)),
                   ![p].pc = "returned"]
    /\ UNCHANGED <<locals, scorerVars, handlerVars, batchVars, storeVars>>

InitConcurrent ==
    /\ calls \in [Invocations -> {Called(call) : call \in ConcurrentInputs}]
    /\ locals = [f \in Invocations |-> NoOutput]
    /\ IdleScorer
    /\ IdleHandler
    /\ IdleBatch
    /\ IdleStore

NextConcurrent ==
    \E p \in Invocations :
        \/ CheckInputsOf(p)
        \/ ProcessWordsOf(p)
        \/ ReturnResultOf(p)

SpecConcurrent == InitConcurrent /\ [][NextConcurrent]_vars

(***************************************************************************)
(* The audit router, app/routers/audit.py.  A request is answered by one   *)
(* handler; the handler calls the transcription provider (audit_audio,     *)
(* audit_audio_file) and then calculate_wer, whose steps are the actions   *)
(* above.  trace lists the calls the handler makes to the outside.         *)
(***************************************************************************)
PyException(msg) == [type |-> "Exception", message |-> msg]

\* fastapi.HTTPException; its str() is "<status_code>: <detail>"
HTTPException(status_code, detail) ==
    [type |-> "HTTPException", status_code |-> status_code, detail |-> detail,
     message |-> ToString(status_code) \o ": " \o detail]

\* the answer the framework gives for an HTTPException that leaves a handler
Answer(e) == [status |-> e.status_code, detail |-> e.detail, body |-> NoBody]

\* AuditHandlers with a fault: every failure is an internal error
AuditHandlers_all_internal(e) ==
    HTTPException(500, "Internal server error: " \o e.message)

\* the except clauses that close each audit handler (lines 65-68, 106-109,
\* 168-171): a ValueError becomes a 400, any other exception a 500
AuditHandlers(e) ==
    IF e.type = "ValueError"
    THEN HTTPException(400, e.message)
    ELSE HTTPException(500, "Internal server error: " \o e.message)

\* str.startswith
StartsWith(str, prefix) ==
    /\ Len(str) >= Len(prefix)
    /\ SubSeq(str, 1, Len(prefix)) = prefix

\* lines 124-126: `not content_type or not content_type.startswith("audio/")`
NotAudio(content_type) ==
    \/ Falsy(content_type)
    \/ ~StartsWith(content_type.value, <<"a", "u", "d", "i", "o", "/">>)

\* what DeepgramWrapper does for a handler: the constructor fails without an
\* API key (deepgram_client.py lines 24-28), the transcription fails (lines
\* 108-109, 182-183) or gives a transcript, "" when the provider found none
ProviderOutcomes(texts) ==
    {[kind |-> "no_api_key", transcript |-> <<>>],
     [kind |-> "fails", transcript |-> <<>>]}
    \cup {[kind |-> "transcribed", transcript |-> t] : t \in texts}

NoApiKey ==
    ValueError("Deepgram API key is required. Set DEEPGRAM_API_KEY environment variable or pass api_key parameter.")

\* the texts of the checked audit requests and transcripts
AuditTexts ==
    {<<>>, <<"a">>, <<"a", " ", "b">>, <<",">>, <<"B", " ", "a">>}

ContentTypes ==
    {PyNone, PyStr(<<>>), PyStr(<<"a", "u", "d", "i", "o", "/", "w", "a", "v">>),
     PyStr(<<"t", "e", "x", "t", "/", "c", "s", "v">>),
     PyStr(<<"a", "u", "d", "i", "o">>)}

AuditRequests ==
    {<<"audit_text", [reference |-> r, hypothesis |-> h]>> :
        r \in AuditTexts, h \in AuditTexts}
    \cup {<<"audit_audio", [reference |-> r, hypothesis_url |-> "https://audio/1"]>> :
        r \in AuditTexts}
    \cup {<<"audit_audio_file", [reference |-> r, content_type |-> c]>> :
        r \in AuditTexts, c \in ContentTypes}

\* the handler leaves with exception e through its except clauses
AuditFails(e) ==
    /\ response' = Answer(AuditHandlers(e))
    /\ at' = "responded"
    /\ UNCHANGED scorerVars

\* the handler calls calculate_wer(ref, hyp)
AuditScores(ref, hyp) ==
    /\ reference' = PyStr(ref)
    /\ hypothesis' = PyStr(hyp)
    /\ pc' = "called"
    /\ at' = "scoring"
    /\ UNCHANGED <<output, result, raised, score, response>>

\* audit.py lines 50-52
audit_text ==
    /\ endpoint = "audit_text"
    /\ at = "received"
    /\ AuditScores(request.reference, request.hypothesis)
    /\ UNCHANGED <<endpoint, request, trace, concurrentVars, batchVars, storeVars>>

\* audit.py lines 78-92
audit_audio ==
    /\ endpoint = "audit_audio"
    /\ at = "received"
    /\ \E outcome \in ProviderOutcomes(AuditTexts) :
          IF outcome.kind = "no_api_key"
          THEN /\ trace' = trace
               /\ AuditFails(NoApiKey)
          ELSE /\ trace' = Append(trace, "transcribe_audio_url")
               /\ IF outcome.kind = "fails"
                  THEN AuditFails(PyException("Transcription failed: provider"))
                  ELSE AuditScores(request.reference, outcome.transcript)
    /\ UNCHANGED <<endpoint, request, concurrentVars, batchVars, storeVars>>

\* audit.py lines 119-146, and the finally of lines 163-166 when the
\* provider fails
audit_audio_file ==
    /\ endpoint = "audit_audio_file"
    /\ at = "received"
    /\ IF NotAudio(request.content_type)
       THEN /\ trace' = trace
            /\ AuditFails(HTTPException(400, "File must be an audio file"))
       ELSE \E outcome \in ProviderOutcomes(AuditTexts) :
               IF outcome.kind = "no_api_key"
               THEN /\ trace' = trace \o <<"NamedTemporaryFile", "os.unlink">>
                    /\ AuditFails(NoApiKey)
               ELSE IF outcome.kind = "fails"
               THEN /\ trace' = trace \o <<"NamedTemporaryFile",
                                            "transcribe_audio_file", "os.unlink">>
                    /\ AuditFails(PyException("File transcription failed: provider"))
               ELSE /\ trace' = trace \o <<"NamedTemporaryFile",
                                            "transcribe_audio_file">>
                    /\ AuditScores(request.reference, outcome.transcript)
    /\ UNCHANGED <<endpoint, request, concurrentVars, batchVars, storeVars>>

\* the response model built from the WERResult (lines 54-63, 95-105, 152-162)
AuditResponse(res) ==
    [reference_word_count |-> res.reference_word_count,
     hypothesis_word_count |-> res.hypothesis_word_count,
     wer |-> res.wer_score, substitutions |-> res.substitutions,
     deletions |-> res.deletions, insertions |-> res.insertions]

\* the handler after calculate_wer returned or raised: lines 54-68, 95-109,
\* 152-171
audit_respond ==
    /\ at = "scoring"
    /\ pc \in {"returned", "raised"}
    /\ response' = IF pc = "returned"
                   THEN [status |-> 200, detail |-> "",
                         body |-> AuditResponse(result)]
                   ELSE Answer(AuditHandlers(raised))
    /\ trace' = IF endpoint = "audit_audio_file"
                THEN Append(trace, "os.unlink")
                ELSE trace
    /\ at' = "responded"
    /\ UNCHANGED <<endpoint, request, scorerVars, concurrentVars, batchVars, storeVars>>

InitAudit ==
    /\ \E req \in AuditRequests :
          /\ endpoint = req[1]
          /\ request = req[2]
    /\ at = "received"
    /\ response = NoResponse
    /\ trace = <<>>
    /\ IdleScorer
    /\ IdleConcurrent
    /\ IdleBatch
    /\ IdleStore

NextAudit ==
    \/ audit_text
    \/ audit_audio
    \/ audit_audio_file
    \/ CheckInputs
    \/ ProcessWords
    \/ ReturnResult
    \/ audit_respond

SpecAudit == InitAudit /\ [][NextAudit]_vars

(***************************************************************************)
(* The webhook router, app/routers/webhook.py.  The payload of a delivery  *)
(* is the parsed JSON (or a body that is no JSON); an audio URL is the     *)
(* sequence of its parts between "/".                                      *)
(***************************************************************************)
\* URLs of one batch
MaxUrls == 2

\* current_speaker = None (line 67)
NoSpeaker == -1

\* str.join
RECURSIVE JoinStr(_, _)
JoinStr(parts, sep) ==
    IF parts = <<>> THEN ""
    ELSE IF Len(parts) = 1 THEN parts[1]
    ELSE parts[1] \o sep \o JoinStr(Tail(parts), sep)

\* lines 77-78 and 86-87
SpeakerLine(current_speaker, current_segment) ==
    "Speaker " \o ToString(current_speaker) \o ": "
        \o JoinStr(current_segment, " ")

\* the loop of lines 70-82 from word k on, and lines 85-87 after it
RECURSIVE DiarizeFrom(_, _, _, _, _)
DiarizeFrom(words, k, current_speaker, current_segment, diarized_lines) ==
    IF k > Len(words)
    THEN IF current_segment # <<>>
         THEN Append(diarized_lines,
                     SpeakerLine(current_speaker, current_segment))
         ELSE diarized_lines
    ELSE LET speaker == words[k].speaker
             changes == current_speaker # NoSpeaker
                        /\ speaker # current_speaker
         IN  DiarizeFrom(words, k + 1, speaker,
                 Append(IF changes THEN <<>> ELSE current_segment,
                        words[k].word),
                 IF changes /\ current_segment # <<>>
                 THEN Append(diarized_lines,
                             SpeakerLine(current_speaker, current_segment))
                 ELSE diarized_lines)

\* build_transcript, webhook.py lines 42-96
build_transcript(results, diarize) ==
    IF results.channels = <<>>
    THEN [raises |-> TRUE, message |-> "No channels found in webhook data",
          transcript |-> ""]
    ELSE IF results.channels[1].alternatives = <<>>
    THEN [raises |-> TRUE, message |-> "No transcription alternatives found",
          transcript |-> ""]
    ELSE LET alternative == results.channels[1].alternatives[1]
         IN  [raises |-> FALSE, message |-> "",
              transcript |->
                 IF diarize /\ alternative.words # <<>>
                 THEN JoinStr(DiarizeFrom(alternative.words, 1, NoSpeaker,
                                          <<>>, <<>>), "\n")
                 ELSE alternative.transcript]

\* build_filename, webhook.py lines 166-173
build_filename(use_url_as_filename, filename_prefix, storage_folder_name, audio_url, batch_id, index) ==
    IF use_url_as_filename
    THEN audio_url[Len(audio_url)] \o ".json"
    ELSE IF filename_prefix # ""
    THEN filename_prefix \o "_" \o ToString(index) \o ".json"
    ELSE batch_id \o "_url_" \o ToString(index) \o ".json"

\* lines 205-220: extra_data.get(key, "False").lower() == "true"
Flag(text) == ToLowerCaseString(text) = <<"t", "r", "u", "e">>

JSONDecodeError == [type |-> "JSONDecodeError", message |-> "Expecting value"]

\* the except clauses of lines 340-347
WebhookHandlers(e) ==
    IF e.type = "JSONDecodeError"
    THEN HTTPException(400, "Invalid JSON payload")
    ELSE HTTPException(500, "Webhook processing failed: " \o e.message)

\* the words of a diarized alternative
SpokenWords ==
    <<[speaker |-> 0, word |-> "hi"], [speaker |-> 1, word |-> "yo"],
      [speaker |-> 1, word |-> "ok"]>>

ChannelLists ==
    { <<>>,
      <<[alternatives |-> <<>>]>>,
      <<[alternatives |-> <<[transcript |-> "hi yo ok", words |-> <<>>]>>]>>,
      <<[alternatives |-> <<[transcript |-> "hi yo ok",
                             words |-> SpokenWords]>>]>> }

AudioUrls ==
    { <<"https:", "", "host", "a.wav">>, <<"https:", "", "host", "b.wav">> }

FlagTexts == {<<"T", "r", "u", "e">>, <<"F", "a", "l", "s", "e">>}

\* the deliveries checked: a body that is no JSON, and the callbacks of the
\* provider for the URLs of one batch
WebhookPayloads ==
    {[valid_json |-> FALSE]}
    \cup {[valid_json |-> TRUE,
           metadata |-> [request_id |-> rid,
                         extra |-> [batch_id |-> "batch", url_index |-> k,
                                    audio_url |-> u, diarize |-> d,
                                    use_url_as_filename |-> f,
                                    filename_prefix |-> px]],
           results |-> [channels |-> c]] :
            rid \in {PyNone, PyStr("req")}, k \in 0..(MaxUrls - 1),
            u \in AudioUrls, d \in FlagTexts, f \in FlagTexts,
            px \in {"", "out"}, c \in ChannelLists}

\* lines 200-224 and 230, 282-289: the locals read from the payload
Extra == request.metadata.extra
WebhookTranscript == build_transcript(request.results, Flag(Extra.diarize))
WebhookFilename ==
    build_filename(Flag(Extra.use_url_as_filename), Extra.filename_prefix, "",
                   Extra.audio_url, Extra.batch_id, Extra.url_index)

\* the handler leaves with exception e through its except clauses
WebhookFails(e) ==
    /\ response' = Answer(WebhookHandlers(e))
    /\ at' = "responded"

\* lines 187-233: the payload is parsed and the transcript built
deepgram_webhook_parse ==
    /\ endpoint = "deepgram_webhook"
    /\ at = "received"
    /\ IF ~request.valid_json
       THEN WebhookFails(JSONDecodeError)
       ELSE IF WebhookTranscript.raises
       THEN WebhookFails(HTTPException(400, WebhookTranscript.message))
       ELSE /\ at' = "built"
            /\ response' = response
    /\ UNCHANGED <<endpoint, request, trace>>
    /\ UNCHANGED <<scorerVars, concurrentVars, batchVars, storeVars>>

\* lines 235-289: the response model is built and validated.  request_id:
\* str refuses None.  sentiment: Optional[str] is given a bool, which the
\* model coerces or refuses depending on the pydantic build.
deepgram_webhook_format ==
    /\ endpoint = "deepgram_webhook"
    /\ at = "built"
    /\ \E sentiment_accepted \in BOOLEAN :
          IF request.metadata.request_id = PyNone \/ ~sentiment_accepted
          THEN WebhookFails(PyException("validation error for DeepgramBatchURLCompletedWebhookResponse"))
          ELSE /\ at' = "formatted"
               /\ response' = response
    /\ UNCHANGED <<endpoint, request, trace>>
    /\ UNCHANGED <<scorerVars, concurrentVars, batchVars, storeVars>>

\* what upload_file does (google_cloud_storage_client.py lines 31-53): it
\* writes the object, finds the destination taken, or raises
UploadOutcomes == {"uploaded", "exists", "raised"}

\* lines 262-279: output_json, the formatted result a delivery writes
WebhookOutput ==
    [batch_id |-> Extra.batch_id, request_id |-> request.metadata.request_id,
     url_index |-> Extra.url_index, audio_url |-> Extra.audio_url,
     transcript |-> WebhookTranscript]

\* the result of an earlier delivery, already in the bucket
EarlierOutput ==
    [batch_id |-> "earlier", request_id |-> PyStr("req0"), url_index |-> 0,
     audio_url |-> <<"https:", "", "host", "a.wav">>, transcript |-> ""]

\* blob.exists(), google_cloud_storage_client.py line 36; bucket is the set
\* of <<name, content>> objects of the bucket yonger-deepgram-demo
blob_exists(objects, name) == \E object \in objects : object[1] = name

\* blob.upload_from_filename, line 43: the object is created or replaced
upload_from_filename(objects, name, content) ==
    {object \in objects : object[1] # name} \cup {<<name, content>>}

\* upload_file with overwrite=False, lines 31-53, run without interruption
upload_file(outcome, name, content) ==
    /\ outcome = "exists" => blob_exists(bucket, name)
    /\ outcome = "uploaded" => ~blob_exists(bucket, name)
    /\ bucket' = IF outcome = "uploaded"
                 THEN upload_from_filename(bucket, name, content)
                 ELSE bucket

\* lines 291-338: the result is written to a temporary file and uploaded;
\* a failed upload is logged only, and the handler answers success
deepgram_webhook_store ==
    /\ endpoint = "deepgram_webhook"
    /\ at = "formatted"
    /\ \E outcome \in UploadOutcomes :
          /\ upload_file(outcome, "transcriptions/" \o WebhookFilename, WebhookOutput)
          /\ trace' = trace \o
              <<[call |-> "NamedTemporaryFile", target |-> "", outcome |-> "created"],
                [call |-> "upload_file",
                 target |-> "transcriptions/" \o WebhookFilename,
                 outcome |-> outcome],
                [call |-> "os.unlink", target |-> "", outcome |-> "removed"]>>
    /\ response' =
          [status |-> 200, detail |-> "",
           body |-> [status |-> "success",
                     message |-> "Transcription result processed: "
                                   \o WebhookFilename,
                     request_id |-> request.metadata.request_id,
                     url_index |-> Extra.url_index,
                     filename |-> WebhookFilename]]
    /\ at' = "responded"
    /\ UNCHANGED <<endpoint, request, redis_store, deliveries>>
    /\ UNCHANGED <<scorerVars, concurrentVars, batchVars>>

InitWebhook ==
    /\ endpoint = "deepgram_webhook"
    /\ request \in WebhookPayloads
    /\ at = "received"
    /\ response = NoResponse
    /\ trace = <<>>
    /\ IdleScorer
    /\ IdleConcurrent
    /\ IdleBatch
    /\ redis_store = {}
    /\ deliveries = <<>>
    /\ \E taken \in BOOLEAN :
          bucket = IF taken /\ request.valid_json
                   THEN {<<"transcriptions/" \o WebhookFilename, EarlierOutput>>}
                   ELSE {}

NextWebhook ==
    \/ deepgram_webhook_parse
    \/ deepgram_webhook_format
    \/ deepgram_webhook_store

SpecWebhook == InitWebhook /\ [][NextWebhook]_vars

(***************************************************************************)
(* The global keyterms and keywords, app/utils/keyterm_manager.py,         *)
(* keyword_manager.py and storage_client.py.  redis_store is the set of    *)
(* <<key, value>> pairs in Redis.  A key or a term is the sequence of its  *)
(* pieces of text, so that the prefix "keyterm:" is a piece that can be    *)
(* put in front, looked for and removed.                                   *)
(***************************************************************************)
\* redis SET: the value of the key is replaced
set_value(store, key, value) ==
    {kv \in store : kv[1] # key} \cup {<<key, value>>}

\* redis GET; None when the key is not there
get_value(store, key) ==
    IF \E kv \in store : kv[1] = key
    THEN PyStr((CHOOSE kv \in store : kv[1] = key)[2])
    ELSE PyNone

\* redis KEYS prefix*: the keys that start with the prefix
get_all_keys_with_prefix(store, prefix) ==
    {kv[1] : kv \in {x \in store : x[1] # <<>> /\ x[1][1] = prefix}}

\* keyterm_manager.add_keyterms, lines 15-17
RECURSIVE add_keyterms(_, _)
add_keyterms(store, terms) ==
    IF terms = <<>> THEN store
    ELSE add_keyterms(set_value(store, <<"keyterm:">> \o terms[1], "1"),
                      Tail(terms))

\* keyword_manager.add_keywords, lines 15-17; the dict is the sequence of
\* its <<keyword, value>> items
RECURSIVE add_keywords(_, _)
add_keywords(store, items) ==
    IF items = <<>> THEN store
    ELSE add_keywords(set_value(store, <<"keyword:">> \o items[1][1],
                                ToString(items[1][2])),
                      Tail(items))

\* str.replace(old, ""): every occurrence of old is removed
RemoveAll(text, old) == SelectSeq(text, LAMBDA piece : piece # old)

\* the orders in which KEYS can return a set of keys
Orderings(keys) ==
    {order \in [1..Cardinality(keys) -> keys] :
        \A x, y \in 1..Cardinality(keys) : x # y => order[x] # order[y]}

\* keyterm_manager.get_all_keyterms, lines 41-44, for the keys as returned
get_all_keyterms(all_keys) ==
    [k \in DOMAIN all_keys |-> RemoveAll(all_keys[k], "keyterm:")]

\* keyword_manager.get_all_keywords, lines 41-53, from key k on
RECURSIVE KeywordsFrom(_, _, _, _)
KeywordsFrom(store, all_keys, k, result_) ==
    IF k > Len(all_keys) THEN result_
    ELSE LET key_str == RemoveAll(all_keys[k], "keyword:")
             value == get_value(store, <<"keyword:">> \o key_str)
         IN  KeywordsFrom(store, all_keys, k + 1,
                 IF Falsy(value) THEN result_
                 ELSE Append(result_, key_str \o <<":", value.value>>))

get_all_keywords(store, all_keys) == KeywordsFrom(store, all_keys, 1, <<>>)

\* transcribe.py line 13
NOVA_3_MODELS == {"nova-3", "nova-3-general", "nova-3-medical"}

\* the keyterms and keywords added to the store before the batch
StoreSeeds ==
    { [terms |-> <<>>, items |-> <<>>],
      [terms |-> <<<<"x">>>>, items |-> <<<< <<"k">>, 1 >>>>],
      [terms |-> <<<<"x">>, <<"y", "z">>>>,
       items |-> << <<<<"k">>, 1>>, <<<<"j">>, 2>> >>],
      [terms |-> <<<<"keyterm:", "x">>>>,
       items |-> <<<< <<"keyword:", "k">>, 1 >>>>] }

Stores == {add_keywords(add_keyterms({}, seed.terms), seed.items) : seed \in StoreSeeds}

\* the model and the lists of a batch request
TermSettings ==
    [model : {"nova-3", "nova-3-medical", "nova-2"},
     keyterm : {<<>>, <<<<"r">>>>},
     keywords : {<<>>, <<<<"q", ":", "2">>>>}]

(***************************************************************************)
(* The transcription router, app/routers/transcribe.py: the two batch      *)
(* handlers and submit_transcription_requests, one action per iteration    *)
(* of its loop.                                                            *)
(***************************************************************************)
\* the except clause of lines 252-255
BatchUrlHandlers(e) ==
    HTTPException(500, "Failed to submit transcription batch: " \o e.message)

\* GCSHandlers with a fault: no clause re-raises an HTTPException
GCSHandlers_catch_all(e) ==
    HTTPException(500, "Failed to submit GCS transcription batch: " \o e.message)

\* the except clauses of lines 357-364
GCSHandlers(e) ==
    IF e.type = "HTTPException"
    THEN e
    ELSE HTTPException(500, "Failed to submit GCS transcription batch: " \o e.message)

\* the except clause of lines 287-291
ListingHandlers(bucket_name, e) ==
    HTTPException(500, "Failed to list files in GCS bucket " \o bucket_name
                          \o ": " \o e.message)

\* the except clause of lines 310-314
SigningHandlers(bucket_name, e) ==
    HTTPException(500, "Failed to generate signed URLs for GCS bucket "
                          \o bucket_name \o ": " \o e.message)

\* `folder: {request.folder_name or 'root'}` of lines 296 and 307
InFolder(req) ==
    req.bucket_name \o ", folder: "
        \o (IF req.folder_name = "" THEN "root" ELSE req.folder_name)

\* the handler that is running leaves with exception e
BatchFails(e) ==
    /\ response' = Answer(IF endpoint = "transcribe_gcs_batch"
                          THEN GCSHandlers(e)
                          ELSE BatchUrlHandlers(e))
    /\ at' = "responded"

\* the listings of a bucket folder: list_files raises or returns the names
\* of the objects, each once (google_cloud_storage_client.py lines 105-132)
FileNames == {"a.wav", "b.wav", "c.wav"}
Listings ==
    {fs \in UNION {[1..k -> FileNames] : k \in 0..MaxUrls} :
        \A x, y \in DOMAIN fs : x # y => fs[x] # fs[y]}

\* generate_signed_urls, google_cloud_storage_client.py lines 152-169: one
\* signed URL per file name, in order
generate_signed_urls(bucket_name, file_names) ==
    [k \in DOMAIN file_names |->
        <<"https:", "", "storage.googleapis.com", bucket_name, file_names[k]>>]

UrlLists == UNION {[1..k -> AudioUrls] : k \in 0..MaxUrls}

BatchRequests ==
    {<<"transcribe_gcs_batch",
       [bucket_name |-> b, folder_name |-> f, model |-> ts.model,
        keyterm |-> ts.keyterm, keywords |-> ts.keywords]>> :
        b \in {"", "bucket"}, f \in {"", "calls"}, ts \in TermSettings}
    \cup {<<"transcribe_audio_batch",
            [audio_urls |-> us, storage_bucket_name |-> sb,
             storage_folder_name |-> sf, model |-> ts.model,
             keyterm |-> ts.keyterm, keywords |-> ts.keywords]>> :
        us \in UrlLists,
        sb \in {<<>>, <<"g", "s", ":", "/", "/", "o">>, <<"o">>},
        sf \in {<<>>, <<"d">>, <<"d", "/">>},
        ts \in TermSettings}

\* lines 232-234: a folder name is given its closing "/"
WithSlash(folder_name) ==
    IF folder_name # <<>> /\ folder_name[Len(folder_name)] # "/"
    THEN Append(folder_name, "/")
    ELSE folder_name

\* transcribe_audio_batch, lines 213-234: the request is validated
transcribe_audio_batch ==
    /\ endpoint = "transcribe_audio_batch"
    /\ at = "received"
    /\ IF request.audio_urls = <<>>
       THEN /\ BatchFails(HTTPException(400, "At least one audio URL is required"))
            /\ UNCHANGED <<request, audio_urls>>
       ELSE IF /\ request.storage_bucket_name # <<>>
               /\ ~StartsWith(request.storage_bucket_name,
                              <<"g", "s", ":", "/", "/">>)
       THEN /\ BatchFails(HTTPException(400, "Storage bucket name must start with 'gs://'"))
            /\ UNCHANGED <<request, audio_urls>>
       ELSE /\ request' = [request EXCEPT
                             !.storage_folder_name = WithSlash(@)]
            /\ audio_urls' = request.audio_urls
            /\ at' = "submit"
            /\ response' = response
    /\ UNCHANGED <<endpoint, trace, audio_files, url_index,
                   success_count, error_count, keyterms, keywords>>
    /\ UNCHANGED <<scorerVars, concurrentVars, storeVars>>

\* transcribe_gcs_batch, lines 273-297: the bucket name is checked and the
\* files are listed
transcribe_gcs_batch_list ==
    /\ endpoint = "transcribe_gcs_batch"
    /\ at = "received"
    /\ IF request.bucket_name = ""
       THEN /\ BatchFails(HTTPException(400, "Bucket name is required"))
            /\ UNCHANGED <<trace, audio_files>>
       ELSE \/ /\ trace' = Append(trace, [call |-> "list_files",
                                          target |-> request.bucket_name,
                                          outcome |-> "raised"])
               /\ BatchFails(ListingHandlers(request.bucket_name,
                                             PyException("storage")))
               /\ audio_files' = audio_files
            \/ \E listing \in Listings :
                  /\ trace' = Append(trace, [call |-> "list_files",
                                             target |-> request.bucket_name,
                                             outcome |-> "listed"])
                  /\ audio_files' = listing
                  /\ IF listing = <<>>
                     THEN BatchFails(HTTPException(400,
                              "No files found in GCS bucket " \o InFolder(request)))
                     ELSE /\ at' = "listed"
                          /\ response' = response
    /\ UNCHANGED <<endpoint, request, audio_urls, url_index, success_count,
                   error_count, keyterms, keywords>>
    /\ UNCHANGED <<scorerVars, concurrentVars, storeVars>>

\* transcribe_gcs_batch, lines 299-314: the files are signed; the raise of
\* line 305 is inside the try whose handler is the clause of line 310
transcribe_gcs_batch_sign ==
    /\ endpoint = "transcribe_gcs_batch"
    /\ at = "listed"
    /\ \E signing \in {"raised", "signed"} :
          IF signing = "raised"
          THEN /\ trace' = Append(trace, [call |-> "generate_signed_urls",
                                          target |-> request.bucket_name,
                                          outcome |-> "raised"])
               /\ BatchFails(SigningHandlers(request.bucket_name,
                                             PyException("storage")))
               /\ audio_urls' = audio_urls
          ELSE /\ trace' = Append(trace, [call |-> "generate_signed_urls",
                                          target |-> request.bucket_name,
                                          outcome |-> "signed"])
               /\ audio_urls' = generate_signed_urls(request.bucket_name,
                                                     audio_files)
               /\ IF generate_signed_urls(request.bucket_name, audio_files) = <<>>
                  THEN BatchFails(SigningHandlers(request.bucket_name,
                           HTTPException(400, "No valid files found in GCS bucket "
                                                 \o InFolder(request))))
                  ELSE /\ at' = "submit"
                       /\ response' = response
    /\ UNCHANGED <<endpoint, request, audio_files, url_index, success_count,
                   error_count, keyterms, keywords>>
    /\ UNCHANGED <<scorerVars, concurrentVars, storeVars>>

\* submit_transcription_requests, lines 99-131: the provider client is
\* created, which fails without an API key, and the counters are set
\* lines 107-113: the stored keyterms, in the order KEYS gives them, then
\* the request's; a store that cannot be read gives no stored keyterm
\* (keyterm_manager.py lines 45-47)
global_keyterms(merged, own) ==
    \/ \E all_keys \in Orderings(get_all_keys_with_prefix(redis_store, "keyterm:")) :
          merged = get_all_keyterms(all_keys) \o own
    \/ merged = <<>> \o own

\* lines 114-121: the stored keywords as key:value, then the request's; a
\* store that cannot be read gives no stored keyword (keyword_manager.py
\* lines 54-56)
global_keywords(merged, own) ==
    \/ \E all_keys \in Orderings(get_all_keys_with_prefix(redis_store, "keyword:")) :
          merged = get_all_keywords(redis_store, all_keys) \o own
    \/ merged = <<>> \o own

submit_transcription_requests ==
    /\ endpoint \in {"transcribe_audio_batch", "transcribe_gcs_batch"}
    /\ at = "submit"
    /\ \E created \in BOOLEAN :
          IF created
          THEN /\ trace' = Append(trace, [call |-> "create_deepgram_client",
                                          target |-> "",
                                          outcome |-> "created"])
               /\ at' = "submitting"
               /\ response' = response
               /\ IF request.model \in NOVA_3_MODELS
                  THEN /\ global_keyterms(keyterms', request.keyterm)
                       /\ keywords' = <<>>
                  ELSE /\ global_keywords(keywords', request.keywords)
                       /\ keyterms' = <<>>
          ELSE /\ trace' = Append(trace, [call |-> "create_deepgram_client",
                                          target |-> "",
                                          outcome |-> "raised"])
               /\ BatchFails(NoApiKey)
               /\ UNCHANGED <<keyterms, keywords>>
    /\ url_index' = 0
    /\ success_count' = 0
    /\ error_count' = 0
    /\ UNCHANGED <<endpoint, request, audio_files, audio_urls>>
    /\ UNCHANGED <<scorerVars, concurrentVars, storeVars>>

\* one iteration with a fault: a submission that raises ends the loop
submit_one_stops_at_failure ==
    /\ at = "submitting"
    /\ url_index < Len(audio_urls)
    /\ \E outcome \in {"submitted", "raised"} :
          /\ trace' = Append(trace, [call |-> "transcribe_audio_url",
                                     target |-> audio_urls[url_index + 1],
                                     url_index |-> url_index,
                                     keyterm |-> keyterms,
                                     keywords |-> keywords,
                                     outcome |-> outcome])
          /\ IF outcome = "raised"
             THEN /\ error_count' = error_count + 1
                  /\ success_count' = success_count
                  /\ url_index' = Len(audio_urls)
             ELSE /\ success_count' = success_count + 1
                  /\ error_count' = error_count
                  /\ url_index' = url_index + 1
    /\ UNCHANGED <<endpoint, request, at, response, audio_files, audio_urls,
                   keyterms, keywords>>
    /\ UNCHANGED <<scorerVars, concurrentVars, storeVars>>

\* one iteration of the loop of lines 134-189: the URL at position
\* url_index is submitted; a submission that raises is counted and the loop
\* goes on
submit_one ==
    /\ at = "submitting"
    /\ url_index < Len(audio_urls)
    /\ \E outcome \in {"submitted", "raised"} :
          /\ trace' = Append(trace, [call |-> "transcribe_audio_url",
                                     target |-> audio_urls[url_index + 1],
                                     url_index |-> url_index,
                                     keyterm |-> keyterms,
                                     keywords |-> keywords,
                                     outcome |-> outcome])
          /\ IF outcome = "raised"
             THEN /\ error_count' = error_count + 1
                  /\ success_count' = success_count
             ELSE /\ success_count' = success_count + 1
                  /\ error_count' = error_count
    /\ url_index' = url_index + 1
    /\ UNCHANGED <<endpoint, request, at, response, audio_files, audio_urls,
                   keyterms, keywords>>
    /\ UNCHANGED <<scorerVars, concurrentVars, storeVars>>

\* lines 191-194 and the response of the handler (lines 240-250, 345-355)
submit_return ==
    /\ at = "submitting"
    /\ url_index = Len(audio_urls)
    /\ response' = [status |-> 200, detail |-> "",
                    body |-> [status |-> "submitted",
                              success_count |-> success_count,
                              error_count |-> error_count]]
    /\ at' = "responded"
    /\ UNCHANGED <<endpoint, request, trace, batchVars>>
    /\ UNCHANGED <<scorerVars, concurrentVars, storeVars>>

InitBatch ==
    /\ \E req \in BatchRequests :
          /\ endpoint = req[1]
          /\ request = req[2]
    /\ at = "received"
    /\ response = NoResponse
    /\ trace = <<>>
    /\ IdleBatch
    /\ IdleScorer
    /\ IdleConcurrent
    /\ redis_store \in Stores
    /\ bucket = {}
    /\ deliveries = <<>>

NextBatch ==
    \/ transcribe_audio_batch
    \/ transcribe_gcs_batch_list
    \/ transcribe_gcs_batch_sign
    \/ submit_transcription_requests
    \/ submit_one
    \/ submit_return

SpecBatch == InitBatch /\ [][NextBatch]_vars

(***************************************************************************)
(* The deliveries of one batch.  The provider calls the webhook once for   *)
(* each submission, and a callback can be delivered again.  The handlers   *)
(* of the deliveries run in the worker processes of the service, so the    *)
(* steps of upload_file in one delivery interleave with those of another:  *)
(* blob.exists() (line 36) and blob.upload_from_filename (line 43) are two *)
(* requests to the storage service.  deliveries[d] is the state of         *)
(* delivery d from the point where its result is formatted.                *)
(***************************************************************************)
MaxDeliveries == 2

Deliveries == 1..MaxDeliveries

\* the URLs of the batch: two of them end in the same file name
BatchUrls == AudioUrls \cup {<<"https:", "", "host", "dir", "a.wav">>}

\* build_filename of deepgram_parser.py, lines 273-290
parser_build_filename(use_url_as_filename, filename_prefix, storage_bucket_name, storage_folder_name, audio_url, batch_id, index) ==
    LET filename ==
            IF use_url_as_filename
            THEN audio_url[Len(audio_url)] \o ".json"
            ELSE IF filename_prefix # ""
            THEN filename_prefix \o "_" \o ToString(index) \o ".json"
            ELSE batch_id \o "_url_" \o ToString(index) \o ".json"
    IN  IF storage_folder_name # ""
        THEN storage_folder_name \o "/" \o filename
        ELSE batch_id \o "/" \o filename

\* transcribe.py lines 137-153: the extra data that rides the submission of
\* the URL at position index and comes back in its callback
extra_data(urls, index, use_url_as_filename, filename_prefix) ==
    [batch_id |-> "batch", url_index |-> index, audio_url |-> urls[index + 1],
     use_url_as_filename |-> use_url_as_filename,
     filename_prefix |-> filename_prefix]

\* webhook.py lines 282-289 and 300: the destination of delivery d
DeliveryFilename(d) ==
    build_filename(Flag(deliveries[d].extra.use_url_as_filename),
                   deliveries[d].extra.filename_prefix, "",
                   deliveries[d].extra.audio_url, deliveries[d].extra.batch_id,
                   deliveries[d].extra.url_index)

gcs_filename(d) == "transcriptions/" \o DeliveryFilename(d)

\* webhook.py lines 262-279: the formatted result of delivery d
DeliveryOutput(d) ==
    [batch_id |-> deliveries[d].extra.batch_id,
     request_id |-> deliveries[d].request_id,
     url_index |-> deliveries[d].extra.url_index,
     audio_url |-> deliveries[d].extra.audio_url,
     transcript |-> "hi"]

\* google_cloud_storage_client.py lines 36-38: the destination is looked up
upload_file_exists(d) ==
    /\ deliveries[d].at = "formatted"
    /\ deliveries' =
          [deliveries EXCEPT ![d] =
              IF blob_exists(bucket, gcs_filename(d))
              THEN [@ EXCEPT !.at = "returned", !.upload_success = "False"]
              ELSE [@ EXCEPT !.at = "uploading"]]
    /\ UNCHANGED <<bucket, redis_store>>
    /\ UNCHANGED <<scorerVars, concurrentVars, handlerVars, batchVars>>

\* lines 40-46: the object is written and True returned
upload_file_write(d) ==
    /\ deliveries[d].at = "uploading"
    /\ bucket' = upload_from_filename(bucket, gcs_filename(d), DeliveryOutput(d))
    /\ deliveries' =
          [deliveries EXCEPT ![d] =
              [@ EXCEPT !.at = "returned", !.upload_success = "True",
                        !.wrote = TRUE]]
    /\ UNCHANGED redis_store
    /\ UNCHANGED <<scorerVars, concurrentVars, handlerVars, batchVars>>

\* lines 48-53: a fault of the storage service is raised to the handler
upload_file_raises(d) ==
    /\ deliveries[d].at \in {"formatted", "uploading"}
    /\ deliveries' =
          [deliveries EXCEPT ![d] =
              [@ EXCEPT !.at = "returned", !.upload_success = "raised"]]
    /\ UNCHANGED <<bucket, redis_store>>
    /\ UNCHANGED <<scorerVars, concurrentVars, handlerVars, batchVars>>

\* webhook.py lines 310-339: the outcome is logged and success answered
deepgram_webhook_return(d) ==
    /\ deliveries[d].at = "returned"
    /\ deliveries' =
          [deliveries EXCEPT ![d] =
              [@ EXCEPT !.at = "responded",
                        !.response = [status |-> "success",
                                      filename |-> DeliveryFilename(d)]]]
    /\ UNCHANGED <<bucket, redis_store>>
    /\ UNCHANGED <<scorerVars, concurrentVars, handlerVars, batchVars>>

InitDeliveries ==
    /\ \E urls \in [Deliveries -> BatchUrls], pos \in [Deliveries -> 0..(MaxDeliveries - 1)], flag \in FlagTexts, prefix \in {"", "out"} :
          deliveries =
              [d \in Deliveries |->
                  [extra |-> extra_data(urls, pos[d], flag, prefix),
                   request_id |-> PyStr("req" \o ToString(d)),
                   at |-> "formatted", upload_success |-> "", wrote |-> FALSE,
                   response |-> [status |-> "", filename |-> ""]]]
    /\ bucket = {}
    /\ redis_store = {}
    /\ IdleScorer
    /\ IdleConcurrent
    /\ IdleHandler
    /\ IdleBatch

NextDeliveries ==
    \E d \in Deliveries :
        \/ upload_file_exists(d)
        \/ upload_file_write(d)
        \/ upload_file_raises(d)
        \/ deepgram_webhook_return(d)

SpecDeliveries == InitDeliveries /\ [][NextDeliveries]_vars

(***************************************************************************)
(* Notions the properties are stated with.                                 *)
(***************************************************************************)
\* the least number of substitutions, deletions and insertions that turn R
\* into H, over all edit scripts
RECURSIVE MinEdits(_, _)
MinEdits(R, H) ==
    IF R = <<>> THEN Len(H)
    ELSE IF H = <<>> THEN Len(R)
    ELSE Min3((IF R[1] = H[1] THEN 0 ELSE 1) + MinEdits(Tail(R), Tail(H)),
              1 + MinEdits(Tail(R), H),
              1 + MinEdits(R, Tail(H)))

\* an argument that is a string of at least one character
Given(v) == v.type = "str" /\ v.value # <<>>
BothGiven == Given(reference) /\ Given(hypothesis)

RefTokens == Normalize(reference.value)
HypTokens == Normalize(hypothesis.value)
Returned == pc = "returned"
Finished == pc \in {"returned", "raised"}
Transformed == pc \in {"processed", "returned"}
EditTotal(r) == r.substitutions + r.deletions + r.insertions

\* the white-space separated chunks of a raw text: the places where a
\* character that is no white space starts the text or follows white space
RawChunks(s) ==
    Cardinality({i \in 1..Len(s) :
                    /\ s[i] \notin Whitespace
                    /\ (i = 1 \/ s[i - 1] \in Whitespace)})

CleanToken(w) ==
    /\ Len(w) >= 1
    /\ \A k \in 1..Len(w) :
          ~IsUpper(w[k]) /\ w[k] \notin Punctuation /\ w[k] \notin Whitespace

\* the result of the call with the two arguments exchanged
Swapped == process_words(hypothesis.value, reference.value).output

(***************************************************************************)
(* Properties.                                                             *)
(***************************************************************************)
\* C1: for non-empty arguments whose reference normalizes to at least one
\* token the call does not fail, and the returned substitutions + deletions
\* + insertions is the minimum word-level edit distance between the
\* normalized reference and the normalized hypothesis.
C1_TotalIsMinimumEditDistance ==
    (Finished /\ BothGiven /\ Len(RefTokens) >= 1) =>
        /\ Returned
        /\ result.set
        /\ EditTotal(result) = MinEdits(RefTokens, HypTokens)

\* "The cat sat on the mat" against "A cat sat on mat" has returned 2 edits
C1_Witness ==
    /\ Returned
    /\ RefTokens = <<<<"t","h","e">>, <<"c","a","t">>, <<"s","a","t">>, <<"o","n">>, <<"t","h","e">>, <<"m","a","t">>>>
    /\ HypTokens = <<<<"a">>, <<"c","a","t">>, <<"s","a","t">>, <<"o","n">>, <<"m","a","t">>>>
    /\ EditTotal(result) = 2

\* C2: the returned wer_score is (substitutions + deletions + insertions)
\* divided by the number of normalized reference tokens, and is above 1
\* whenever the edits outnumber those tokens.
C2_ScoreIsTotalOverNormalizedCount ==
    Returned =>
        /\ result.wer_score.den # 0
        /\ result.wer_score.num * Len(RefTokens)
              = EditTotal(result) * result.wer_score.den
        /\ (EditTotal(result) > Len(RefTokens)
              => result.wer_score.num > result.wer_score.den)

\* "hello" against "hello there friend" has returned 2/1
C2_Witness ==
    /\ Returned
    /\ reference.value = <<"h","e","l","l","o">>
    /\ Len(HypTokens) = 3
    /\ result.wer_score = [num |-> 2, den |-> 1]
    /\ result.reference_word_count = 1

\* C3: an empty or absent raw reference or hypothesis makes the call fail
\* with the invalid-input error before anything is transformed or counted,
\* and that error is raised for no other arguments.
C3_InvalidInputRejectedFirst ==
    /\ (~BothGiven /\ pc # "called") =>
          /\ pc = "raised"
          /\ raised = ValueError("Both reference and hypothesis must be non-empty strings")
          /\ ~output.set
          /\ ~result.set
    /\ raised = ValueError("Both reference and hypothesis must be non-empty strings")
          => ~BothGiven

\* "the the the" against "" has failed as invalid input
C3_Witness ==
    /\ pc = "raised"
    /\ Len(RefTokens) = 3
    /\ hypothesis = PyStr(<<>>)
    /\ raised.message = "Both reference and hypothesis must be non-empty strings"
    /\ ~output.set

\* C4: non-empty arguments whose reference normalizes to zero tokens make
\* the call fail with an error; no result, partial or sentinel, is returned.
C4_EmptyNormalizedReferenceFails ==
    (BothGiven /\ Len(RefTokens) = 0) =>
        /\ pc \notin {"processed", "returned"}
        /\ ~output.set
        /\ ~result.set
        /\ (pc \notin {"called", "checked"}
              => pc = "raised" /\ raised.type = "ValueError")

\* a reference of punctuation or white space only has failed
C4_Witness ==
    /\ pc = "raised"
    /\ BothGiven
    /\ Len(RefTokens) = 0
    /\ \E k \in 1..Len(reference.value) : reference.value[k] \in Punctuation
    /\ Len(HypTokens) >= 1

\* C5: in every returned result the three counts are non-negative integers,
\* substitutions + deletions is at most the number of normalized reference
\* tokens and substitutions + insertions at most that of the hypothesis.
C5_CountsWithinTokenCounts ==
    Returned =>
        /\ result.substitutions \in Nat
        /\ result.deletions \in Nat
        /\ result.insertions \in Nat
        /\ result.substitutions + result.deletions <= Len(RefTokens)
        /\ result.substitutions + result.insertions <= Len(HypTokens)

\* a result with all three kinds of edit has been returned
C5_Witness ==
    /\ Returned
    /\ result.substitutions >= 1
    /\ result.deletions >= 1
    /\ result.insertions >= 1

\* C6 as stated: whenever the normalized token sequences are equal, the call
\* returns, with no edits and a score of 0.
C6_AsStated ==
    (Finished /\ RefTokens = HypTokens) =>
        /\ Returned
        /\ EditTotal(result) = 0
        /\ result.wer_score.num = 0

\* C6 as amended: whenever the normalized token sequences are equal and hold
\* at least one token, the call returns, with substitutions = deletions =
\* insertions = 0 and a score of 0.
C6_EqualNonEmptyTokensScoreZero ==
    (Finished /\ RefTokens = HypTokens /\ Len(RefTokens) >= 1) =>
        /\ Returned
        /\ result.substitutions = 0
        /\ result.deletions = 0
        /\ result.insertions = 0
        /\ result.wer_score.num = 0
        /\ result.wer_score.den # 0

\* raw texts that differ and normalize to the same tokens have scored 0
C6_Witness ==
    /\ Returned
    /\ RefTokens = HypTokens
    /\ Len(RefTokens) >= 1
    /\ reference # hypothesis
    /\ result.wer_score.num = 0

C8_ReportedCountsAreRawChunks ==
    Returned =>
        /\ result.reference_word_count = RawChunks(reference.value)
        /\ result.hypothesis_word_count = RawChunks(hypothesis.value)

\* "hello , world" reports 3 words while the score is over 2 tokens
C8_Witness ==
    /\ Returned
    /\ reference.value = <<"h","e","l","l","o"," ",","," ","w","o","r","l","d">>
    /\ result.reference_word_count = 3
    /\ Len(RefTokens) = 2
    /\ result.wer_score.den = 2

\* C9: every token of a normalized text is non-empty and holds no
\* upper-case, punctuation or white-space character.
C9_TokensAreClean ==
    Transformed =>
        /\ \A k \in 1..Len(RefTokens) : CleanToken(RefTokens[k])
        /\ \A k \in 1..Len(HypTokens) : CleanToken(HypTokens[k])

\* C10: the tokens of a normalized text, joined by single spaces and
\* normalized again, are the same tokens.
C10_NormalizeIdempotent ==
    Transformed =>
        /\ Normalize(JoinWords(RefTokens)) = RefTokens
        /\ Normalize(JoinWords(HypTokens)) = HypTokens

(***************************************************************************)
(* The backtrace the specification pins: through the table D of section    *)
(* 4.2, from D[m][n] to D[0][0]; equal tokens are a match, otherwise the    *)
(* first of substitution, deletion, insertion that achieves D[a][b].        *)
(***************************************************************************)
TableCell(R, H, a, b) == MinEdits(SubSeq(R, 1, a), SubSeq(H, 1, b))

RECURSIVE PolicyBacktrace(_, _, _, _, _)
PolicyBacktrace(R, H, a, b, ops) ==
    IF a = 0 /\ b = 0 THEN ops
    ELSE IF a > 0 /\ b > 0 /\ R[a] = H[b]
    THEN PolicyBacktrace(R, H, a - 1, b - 1, ops)
    ELSE IF a > 0 /\ b > 0
            /\ TableCell(R, H, a, b) = 1 + TableCell(R, H, a - 1, b - 1)
    THEN PolicyBacktrace(R, H, a - 1, b - 1,
                         [ops EXCEPT !.substitutions = @ + 1])
    ELSE IF a > 0 /\ TableCell(R, H, a, b) = 1 + TableCell(R, H, a - 1, b)
    THEN PolicyBacktrace(R, H, a - 1, b, [ops EXCEPT !.deletions = @ + 1])
    ELSE PolicyBacktrace(R, H, a, b - 1, [ops EXCEPT !.insertions = @ + 1])

PolicySplit(R, H) ==
    PolicyBacktrace(R, H, Len(R), Len(H),
                    [substitutions |-> 0, deletions |-> 0, insertions |-> 0])

\* C11: the substitutions, deletions and insertions calculate_wer returns
\* are those of the backtrace that prefers substitution, then deletion, then
\* insertion wherever several steps achieve the minimum.
C11_SplitFollowsTieBreakPolicy ==
    (Returned /\ BothGiven) =>
        LET split == PolicySplit(RefTokens, HypTokens)
        IN  /\ result.substitutions = split.substitutions
            /\ result.deletions = split.deletions
            /\ result.insertions = split.insertions

\* C12: a hypothesis of at least one character that normalizes to no token,
\* against a reference of m > 0 tokens, does not fail: the call returns m
\* deletions, no substitution, no insertion and a score of m/m = 1.
C12_EmptyNormalizedHypothesisAllDeletions ==
    (Finished /\ BothGiven /\ Len(RefTokens) > 0 /\ HypTokens = <<>>) =>
        /\ pc = "returned"
        /\ result.deletions = Len(RefTokens)
        /\ result.substitutions = 0
        /\ result.insertions = 0
        /\ result.wer_score.den > 0
        /\ result.wer_score.num = result.wer_score.den

C12_Witness ==
    /\ Returned
    /\ hypothesis = PyStr(<<",">>)
    /\ Len(RefTokens) = 2
    /\ result.deletions = 2
    /\ result.wer_score = [num |-> 2, den |-> 2]

\* the failure line 31 signals for an empty or missing argument
InvalidInputFailure ==
    ValueError("Both reference and hypothesis must be non-empty strings")

\* C13: the failure signalled for a reference that normalizes to no token
\* is of another error kind than the failure signalled for an empty or
\* missing argument.
C13_DegenerateKindDistinct ==
    (pc = "raised" /\ BothGiven /\ RefTokens = <<>>) =>
        raised.type # InvalidInputFailure.type

\* C16: calculate_simple_wer returns the wer_score calculate_wer computes
\* for the same pair, and that score lies between 0 and 1.
C16_SimpleScoreBetweenZeroAndOne ==
    (pc = "simple_returned") =>
        /\ score = process_words(reference.value, hypothesis.value).output.wer
        /\ score.den > 0
        /\ 0 <= score.num
        /\ score.num <= score.den

\* what one invocation gives back when nothing else runs
Alone(ref, hyp) ==
    IF ~(Given(ref) /\ Given(hyp))
    THEN [pc |-> "raised", result |-> NoResult, raised |-> InvalidInputFailure]
    ELSE LET r == process_words(ref.value, hyp.value)
         IN  IF r.raises
             THEN [pc |-> "raised", result |-> NoResult,
                   raised |-> ValueError("Error calculating WER: " \o r.message)]
             ELSE [pc |-> "returned",
                   result |-> [wer_score |-> r.output.wer,
                               substitutions |-> r.output.substitutions,
                               deletions |-> r.output.deletions,
                               insertions |-> r.output.insertions,
                               reference_word_count |-> RawChunks(ref.value),
                               hypothesis_word_count |-> RawChunks(hyp.value),
                               set |-> TRUE],
                   raised |-> NoError]

\* C14: however concurrent invocations of calculate_wer interleave, each
\* one that has finished gave back the result, or the failure, of its own
\* reference and hypothesis run alone.
C14_EachInvocationAsAlone ==
    \A p \in DOMAIN calls :
        calls[p].pc \in {"returned", "raised"} =>
            LET alone == Alone(calls[p].reference, calls[p].hypothesis)
            IN  /\ calls[p].pc = alone.pc
                /\ calls[p].result = alone.result
                /\ calls[p].raised = alone.raised

\* invocation 1 has returned after invocation 2, called with another pair,
\* ran its alignment and before invocation 2 returns
C14_Witness ==
    /\ calls # <<>>
    /\ calls[1].pc = "returned"
    /\ calls[2].pc = "processed"
    /\ calls[1].reference # calls[2].reference
    /\ locals[1] # locals[2]

\* the handler has answered the request
Responded == at = "responded"
\* the handler called calculate_wer
Scored == pc # "idle"

\* C15: audit_text and audit_audio answer 400 whenever calculate_wer was
\* called with an empty reference, an empty hypothesis or transcript, or a
\* reference that normalizes to no token; they answer 500 only when the
\* failure is none of the scorer.
C15_ScorerInputFailuresAre400 ==
    (Responded /\ endpoint \in {"audit_text", "audit_audio"}) =>
        /\ (Scored /\ (reference.value = <<>> \/ hypothesis.value = <<>>
                        \/ RefTokens = <<>>))
              => response.status = 400
        /\ response.status = 500 => ~Scored

\* audit_audio answered 400 for a transcript the provider returned empty
C15_Witness ==
    /\ Responded
    /\ endpoint = "audit_audio"
    /\ Given(reference)
    /\ hypothesis = PyStr(<<>>)
    /\ trace = <<"transcribe_audio_url">>
    /\ response.status = 400
    /\ response.detail = "Both reference and hypothesis must be non-empty strings"

\* C17: audit_audio_file answers an upload whose content type is missing
\* or does not start with "audio/" with 400 and the detail "File must be an
\* audio file", having created no temporary file and called no provider.
C17_NonAudioUploadIs400 ==
    (Responded /\ endpoint = "audit_audio_file"
       /\ (request.content_type.type = "NoneType"
           \/ request.content_type.value = <<>>
           \/ SubSeq(request.content_type.value, 1, 6)
                 # <<"a", "u", "d", "i", "o", "/">>)) =>
        /\ response.status = 400
        /\ response.detail = "File must be an audio file"
        /\ trace = <<>>

\* C18: deepgram_webhook answers a payload whose results hold no channel,
\* or whose first channel holds no alternative, with 400 and the message of
\* build_transcript, and uploads nothing for it.
C18_NoTranscriptIs400 ==
    (Responded /\ endpoint = "deepgram_webhook" /\ request.valid_json
       /\ (request.results.channels = <<>>
           \/ request.results.channels[1].alternatives = <<>>)) =>
        /\ response.status = 400
        /\ response.detail =
              (IF request.results.channels = <<>>
               THEN "No channels found in webhook data"
               ELSE "No transcription alternatives found")
        /\ trace = <<>>

\* the calls of the given name made so far, in order
CallsOf(name) == SelectSeq(trace, LAMBDA e : e.call = name)
\* the last call made raised
LastCallRaised(name) ==
    /\ trace # <<>>
    /\ trace[Len(trace)].call = name
    /\ trace[Len(trace)].outcome = "raised"

\* C19 as stated: a missing bucket name and an empty listing are answered
\* 400, and 500 is answered only for a listing or a signing fault.
C19_AsStated ==
    (Responded /\ endpoint = "transcribe_gcs_batch") =>
        /\ request.bucket_name = "" => response.status = 400
        /\ (request.bucket_name # "" /\ CallsOf("list_files") # <<>>
               /\ ~LastCallRaised("list_files") /\ audio_files = <<>>)
              => response.status = 400
        /\ response.status = 500 =>
              (LastCallRaised("list_files")
                 \/ LastCallRaised("generate_signed_urls"))

\* C19: transcribe_gcs_batch answers 400, with the detail of the raise, for
\* a missing bucket name and for an empty listing; it answers 500 for a
\* listing fault, a signing fault and a provider client that cannot be
\* created, and for nothing else.
C19_GCSStatuses ==
    (Responded /\ endpoint = "transcribe_gcs_batch") =>
        /\ request.bucket_name = "" =>
              (response.status = 400 /\ trace = <<>>
                 /\ response.detail = "Bucket name is required")
        /\ (request.bucket_name # "" /\ CallsOf("list_files") # <<>>
               /\ ~LastCallRaised("list_files") /\ audio_files = <<>>)
              => (response.status = 400 /\ Len(trace) = 1)
        /\ response.status = 400 =>
              (request.bucket_name = "" \/ audio_files = <<>>)
        /\ response.status = 500 <=>
              (LastCallRaised("list_files")
                 \/ LastCallRaised("generate_signed_urls")
                 \/ LastCallRaised("create_deepgram_client"))
        /\ response.status \in {200, 400, 500}

\* the listing of the bucket came back empty and the answer is 400
C19_Witness ==
    /\ Responded
    /\ endpoint = "transcribe_gcs_batch"
    /\ request.bucket_name = "bucket"
    /\ Len(trace) = 1
    /\ trace[1].outcome = "listed"
    /\ audio_files = <<>>
    /\ response.status = 400
    /\ response.detail = "No files found in GCS bucket bucket, folder: root"

\* C20: submit_transcription_requests submits the entries of audio_urls
\* one by one in list order, the entry at position k with url_index k; a
\* submission that raises is followed by the remaining ones; when it
\* returns, every entry has been submitted once, success_count +
\* error_count is len(audio_urls) and error_count is the number of
\* submissions that raised.
C20_OneSubmissionPerUrl ==
    LET submissions == CallsOf("transcribe_audio_url")
    IN  /\ at = "submitting" =>
              /\ Len(submissions) = url_index
              /\ url_index <= Len(audio_urls)
        /\ (at \in {"submitting", "responded"}
               /\ endpoint \in {"transcribe_audio_batch", "transcribe_gcs_batch"}) =>
              /\ \A k \in DOMAIN submissions :
                    /\ k <= Len(audio_urls)
                    /\ submissions[k].target = audio_urls[k]
                    /\ submissions[k].url_index = k - 1
              /\ success_count + error_count = Len(submissions)
              /\ error_count =
                    Cardinality({k \in DOMAIN submissions :
                                    submissions[k].outcome = "raised"})
        /\ (Responded /\ response.status = 200
               /\ endpoint \in {"transcribe_audio_batch", "transcribe_gcs_batch"}) =>
              /\ Len(submissions) = Len(audio_urls)
              /\ response.body.success_count + response.body.error_count
                    = Len(audio_urls)
              /\ response.body.error_count = error_count

\* the first of two submissions raised, the second was made and succeeded
C20_Witness ==
    /\ Responded
    /\ endpoint = "transcribe_audio_batch"
    /\ response.status = 200
    /\ Len(audio_urls) = 2
    /\ audio_urls[1] # audio_urls[2]
    /\ Len(trace) = 3
    /\ trace[2].outcome = "raised"
    /\ trace[3].outcome = "submitted"
    /\ trace[3].url_index = 1
    /\ error_count = 1
    /\ success_count = 1

\* the keyterms that were added to the store: each key without its prefix
StoredKeyterms ==
    {Tail(kv[1]) : kv \in {x \in redis_store : x[1][1] = "keyterm:"}}

\* the keywords that were added to the store, each as key:value
StoredKeywords ==
    {Tail(kv[1]) \o <<":", kv[2]>> : kv \in {x \in redis_store : x[1][1] = "keyword:"}}

\* the list is the whole of stored, in some order, followed by own
StoredThenOwn(list, stored, own) ==
    \E order \in [1..Cardinality(stored) -> stored] :
        /\ \A x, y \in 1..Cardinality(stored) : x # y => order[x] # order[y]
        /\ list = order \o own

\* C21: for a nova-3 model every submission carries all the stored global
\* keyterms followed by the request's keyterms and no keywords; for any
\* other model it carries all the stored global keywords as key:value
\* followed by the request's keywords and no keyterm; no submission carries
\* both lists non-empty.
C21_SubmissionsCarryStoredTerms ==
    \A k \in DOMAIN trace :
        trace[k].call = "transcribe_audio_url" =>
            /\ IF request.model \in {"nova-3", "nova-3-general", "nova-3-medical"}
               THEN /\ StoredThenOwn(trace[k].keyterm, StoredKeyterms, request.keyterm)
                    /\ trace[k].keywords = <<>>
               ELSE /\ StoredThenOwn(trace[k].keywords, StoredKeywords, request.keywords)
                    /\ trace[k].keyterm = <<>>
            /\ ~(trace[k].keyterm # <<>> /\ trace[k].keywords # <<>>)

SameDestination(d, e) == d # e /\ gcs_filename(d) = gcs_filename(e)

\* C22: upload_file with overwrite=False never replaces an object that is
\* at the destination, and of two such calls to the same destination, in
\* any interleaving, at most one writes the object.
C22_AtMostOneWrites ==
    [][/\ \A object \in bucket : object \in bucket'
       /\ \A d, e \in Deliveries :
             (SameDestination(d, e))' => ~(deliveries'[d].wrote /\ deliveries'[e].wrote)]_vars

\* C24: within one batch the filenames built for distinct url_index values
\* are pairwise distinct, under each build_filename, and a delivery that is
\* refused because its destination is taken finds there the result of its
\* own URL.
C24_FilenamesPairwiseDistinct ==
    /\ \A d, e \in DOMAIN deliveries :
          deliveries[d].extra.url_index # deliveries[e].extra.url_index =>
              /\ DeliveryFilename(d) # DeliveryFilename(e)
              /\ parser_build_filename(Flag(deliveries[d].extra.use_url_as_filename), deliveries[d].extra.filename_prefix, "", "", deliveries[d].extra.audio_url, deliveries[d].extra.batch_id, deliveries[d].extra.url_index)
                    # parser_build_filename(Flag(deliveries[e].extra.use_url_as_filename), deliveries[e].extra.filename_prefix, "", "", deliveries[e].extra.audio_url, deliveries[e].extra.batch_id, deliveries[e].extra.url_index)
    /\ \A d \in DOMAIN deliveries :
          deliveries[d].upload_success = "False" =>
              \A object \in bucket :
                  object[1] = gcs_filename(d) =>
                      object[2].url_index = deliveries[d].extra.url_index


====
